---------------------------- MODULE Spec2Model ----------------------------
(***************************************************************************)
(* Model of src/plugins/extra/attrs.rs of markdown-it-rust: the backward   *)
(* attribute scanner parse_attrs and the core rule AttrsRule that applies  *)
(* it to headings and code fences.                                         *)
(*                                                                         *)
(* A string is a sequence of characters; a character is a one-character    *)
(* TLA+ string, except "VT" which stands for U+000B (vertical tab), a      *)
(* character that str::trim_end removes (Unicode White_Space) but          *)
(* char::is_ascii_whitespace does not accept.  Positions are counted in    *)
(* characters; the code's byte offsets from char_indices always fall on    *)
(* character boundaries, so slicing at them is slicing at the character.   *)
(***************************************************************************)
EXTENDS Integers, Sequences, FiniteSets, TLC

VARIABLES
    s,        \* parse_attrs: the argument s
    sc,       \* parse_attrs: the locals (state, key, value, attrs, end, iterator)
    ret,      \* parse_attrs: the returned pair, None until it returns
    nodes,    \* AttrsRule::run: the nodes of the tree under root
    visited,  \* AttrsRule::run: the nodes walk_mut has called the closure on
    root0,    \* the nodes of the tree as AttrsRule::run received them
    highlighted  \* SyntectRule::run: the nodes its walk_mut has called its closure on

vars == <<s, sc, ret, nodes, visited, root0, highlighted>>

None == <<>>

(***************************************************************************)
(* Bounds of the model.                                                    *)
(***************************************************************************)
MaxLen == 4         \* every string over Alphabet up to this length is an input
MaxTokens == 2      \* assembled inputs hold up to this many tokens
NumNodes == 2       \* block nodes under root

(***************************************************************************)
(* Characters.                                                             *)
(***************************************************************************)
AsciiWhitespace == {" ", "\t", "\n", "\f", "\r"}

WhiteSpace == AsciiWhitespace \cup {"VT"}

Alphabet == {"{", "}", "\"", "\\", "=", "#", ".", " ", "VT", "a", "b"}

Str(n) == [1..n -> Alphabet]

id == <<"i", "d">>

class == <<"c", "l", "a", "s", "s">>

RECURSIVE trim_end(_)
trim_end(t) ==
    IF t # <<>> /\ t[Len(t)] \in WhiteSpace
    THEN trim_end(SubSeq(t, 1, Len(t) - 1))
    ELSE t

(***************************************************************************)
(* parse_attrs.  The locals are one record:                                *)
(*   state, key, value, attrs, end   as in the code (end = -1: unassigned) *)
(*   it          characters char_indices().rev() has not yielded yet       *)
(*   index_char  what the last next() returned: None or <<i, c>>, with i   *)
(*               the 0-based position of c                                 *)
(*   pc          "loop" while the loop runs, "break" once it was left by   *)
(*               break, "return" once `return fail` ran, "done" after the  *)
(*               final return, "panic" once the assertion failed           *)
(***************************************************************************)
Locals(str) ==
    [state |-> "Start", key |-> <<>>, value |-> <<>>, attrs |-> <<>>,
     end |-> -1, it |-> Len(str), index_char |-> None, pc |-> "loop"]

failTrimmed(str) == <<trim_end(str), <<>>>>

fail(str) == <<str, <<>>>>

ReturnFail(m) == [m EXCEPT !.pc = "return"]

Break(m, i) == [m EXCEPT !.end = i, !.pc = "break"]

insert0(list, x) == <<x>> \o list

nextPeek(str, m) ==
    IF m.it = 0
    THEN [m EXCEPT !.index_char = None]
    ELSE [m EXCEPT !.index_char = <<m.it - 1, str[m.it]>>]

next(str, m) ==
    IF m.it = 0
    THEN [m EXCEPT !.index_char = None]
    ELSE [m EXCEPT !.it = m.it - 1, !.index_char = <<m.it - 1, str[m.it]>>]

StateStartAny(m) ==
    IF m.index_char # None THEN [m EXCEPT !.state = "Blank"] ELSE ReturnFail(m)

StateStart(m) ==
    IF m.index_char # None /\ m.index_char[2] = "}"
    THEN [m EXCEPT !.state = "Blank"]
    ELSE ReturnFail(m)

StateBlankOpenAtStart(m) ==
    IF m.index_char = None
    THEN Break(m, 0)
    ELSE LET i == m.index_char[1]
             c == m.index_char[2]
         IN  CASE c = "{" -> Break(m, i)
               [] c = "\"" -> [m EXCEPT !.value = <<>>, !.state = "Quoted"]
               [] c \in AsciiWhitespace -> [m EXCEPT !.state = "Blank"]
               [] OTHER -> [m EXCEPT !.value = <<c>>, !.state = "Unquoted"]

StateBlankNoEnd(m) ==
    IF m.index_char = None
    THEN [m EXCEPT !.state = "Blank"]
    ELSE LET i == m.index_char[1]
             c == m.index_char[2]
         IN  CASE c = "{" -> Break(m, i)
               [] c = "\"" -> [m EXCEPT !.value = <<>>, !.state = "Quoted"]
               [] c \in AsciiWhitespace -> [m EXCEPT !.state = "Blank"]
               [] OTHER -> [m EXCEPT !.value = insert0(<<>>, c), !.state = "Unquoted"]

StateBlankStale(m) ==
    IF m.index_char = None
    THEN ReturnFail(m)
    ELSE LET i == m.index_char[1]
             c == m.index_char[2]
         IN  CASE c = "{" -> Break(m, i)
               [] c = "\"" -> [m EXCEPT !.value = <<>>, !.state = "Quoted"]
               [] c \in AsciiWhitespace -> [m EXCEPT !.state = "Blank"]
               [] OTHER -> [m EXCEPT !.value = insert0(m.value, c), !.state = "Unquoted"]

StateBlankOnlyAtStart(m) ==
    IF m.index_char = None
    THEN ReturnFail(m)
    ELSE LET i == m.index_char[1]
             c == m.index_char[2]
         IN  CASE c = "{" -> IF i = 0 THEN Break(m, i) ELSE ReturnFail(m)
               [] c = "\"" -> [m EXCEPT !.value = <<>>, !.state = "Quoted"]
               [] c \in AsciiWhitespace -> [m EXCEPT !.state = "Blank"]
               [] OTHER -> [m EXCEPT !.value = insert0(<<>>, c), !.state = "Unquoted"]

StateBlank(m) ==
    IF m.index_char = None
    THEN ReturnFail(m)
    ELSE LET i == m.index_char[1]
             c == m.index_char[2]
         IN  CASE c = "{" -> Break(m, i)
               [] c = "\"" -> [m EXCEPT !.value = <<>>, !.state = "Quoted"]
               [] c \in AsciiWhitespace -> [m EXCEPT !.state = "Blank"]
               [] OTHER -> [m EXCEPT !.value = insert0(<<>>, c), !.state = "Unquoted"]

StateQuoted(m) ==
    IF m.index_char = None
    THEN ReturnFail(m)
    ELSE LET c == m.index_char[2]
         IN  IF c = "\""
             THEN [m EXCEPT !.state = "Equal"]
             ELSE [m EXCEPT !.value = insert0(m.value, c), !.state = "Quoted"]

StateEqualUnkeyed(m) ==
    IF m.index_char = None
    THEN ReturnFail(m)
    ELSE LET c == m.index_char[2]
         IN  CASE c = "\\" -> [m EXCEPT !.value = insert0(m.value, "\""),
                                        !.state = "Quoted"]
               [] c = "=" -> [m EXCEPT !.key = <<>>, !.state = "Key"]
               [] c \in AsciiWhitespace ->
                      [m EXCEPT !.attrs = insert0(m.attrs, <<<<>>, m.value>>),
                                !.state = "Blank"]
               [] OTHER -> ReturnFail(m)

StateEqualKeepBackslash(m) ==
    IF m.index_char = None
    THEN ReturnFail(m)
    ELSE LET c == m.index_char[2]
         IN  CASE c = "\\" -> [m EXCEPT !.value = <<"\\", "\"">> \o m.value,
                                        !.state = "Quoted"]
               [] c = "=" -> [m EXCEPT !.key = <<>>, !.state = "Key"]
               [] OTHER -> ReturnFail(m)

StateEqual(m) ==
    IF m.index_char = None
    THEN ReturnFail(m)
    ELSE LET c == m.index_char[2]
         IN  CASE c = "\\" -> [m EXCEPT !.value = insert0(m.value, "\""),
                                        !.state = "Quoted"]
               [] c = "=" -> [m EXCEPT !.key = <<>>, !.state = "Key"]
               [] OTHER -> ReturnFail(m)

StateUnquotedSkipBare(m) ==
    IF m.index_char = None
    THEN ReturnFail(m)
    ELSE LET c == m.index_char[2]
         IN  CASE c = "{" -> ReturnFail(m)
               [] c = "#" -> [m EXCEPT !.attrs = insert0(m.attrs, <<id, m.value>>),
                                       !.state = "Blank"]
               [] c = "." -> [m EXCEPT !.attrs = insert0(m.attrs, <<class, m.value>>),
                                       !.state = "Blank"]
               [] c = "=" -> [m EXCEPT !.key = <<>>, !.state = "Key"]
               [] c \in AsciiWhitespace -> [m EXCEPT !.state = "Blank"]
               [] OTHER -> [m EXCEPT !.value = insert0(m.value, c),
                                     !.state = "Unquoted"]

StateUnquoted(m) ==
    IF m.index_char = None
    THEN ReturnFail(m)
    ELSE LET c == m.index_char[2]
         IN  CASE c = "{" -> ReturnFail(m)
               [] c = "#" -> [m EXCEPT !.attrs = insert0(m.attrs, <<id, m.value>>),
                                       !.state = "Blank"]
               [] c = "." -> [m EXCEPT !.attrs = insert0(m.attrs, <<class, m.value>>),
                                       !.state = "Blank"]
               [] c = "=" -> [m EXCEPT !.key = <<>>, !.state = "Key"]
               [] c \in AsciiWhitespace -> ReturnFail(m)
               [] OTHER -> [m EXCEPT !.value = insert0(m.value, c),
                                     !.state = "Unquoted"]

StateKeyWsInKey(m) ==
    IF m.index_char = None
    THEN ReturnFail(m)
    ELSE LET i == m.index_char[1]
             c == m.index_char[2]
         IN  IF c = "{"
             THEN Break([m EXCEPT !.attrs = insert0(m.attrs, <<m.key, m.value>>)], i)
             ELSE [m EXCEPT !.key = insert0(m.key, c), !.state = "Key"]

StateKeyAppend(m) ==
    IF m.index_char = None
    THEN ReturnFail(m)
    ELSE LET i == m.index_char[1]
             c == m.index_char[2]
         IN  IF c = "{" \/ c \in AsciiWhitespace
             THEN LET m1 == [m EXCEPT !.attrs = Append(m.attrs, <<m.key, m.value>>)]
                  IN  IF c = "{" THEN Break(m1, i) ELSE [m1 EXCEPT !.state = "Blank"]
             ELSE [m EXCEPT !.key = insert0(m.key, c), !.state = "Key"]

StateKey(m) ==
    IF m.index_char = None
    THEN ReturnFail(m)
    ELSE LET i == m.index_char[1]
             c == m.index_char[2]
         IN  IF c = "{" \/ c \in AsciiWhitespace
             THEN LET m1 == [m EXCEPT !.attrs = insert0(m.attrs, <<m.key, m.value>>)]
                  IN  IF c = "{" THEN Break(m1, i) ELSE [m1 EXCEPT !.state = "Blank"]
             ELSE [m EXCEPT !.key = insert0(m.key, c), !.state = "Key"]

\* debug_assert!(index_char.is_some()), reached when the arm neither
\* returned nor broke out of the loop; a failed assertion panics.
DebugAssert(m) ==
    IF m.pc = "loop" /\ m.index_char = None THEN [m EXCEPT !.pc = "panic"] ELSE m

\* One iteration of the loop: next(), the arm of the current state, and the
\* assertion.
Iteration(str, m) ==
    LET m1 == next(str, m)
    IN  DebugAssert(CASE m.state = "Start" -> StateStart(m1)
                      [] m.state = "Blank" -> StateBlank(m1)
                      [] m.state = "Quoted" -> StateQuoted(m1)
                      [] m.state = "Equal" -> StateEqual(m1)
                      [] m.state = "Unquoted" -> StateUnquoted(m1)
                      [] m.state = "Key" -> StateKey(m1))

FinishNoEmptyCheck(str, m) == <<trim_end(SubSeq(str, 1, m.end)), m.attrs>>

FinishNoTrim(str, m) ==
    IF m.attrs = <<>> THEN fail(str) ELSE <<SubSeq(str, 1, m.end), m.attrs>>

\* The code after the loop: the empty check and the final return.
Finish(str, m) ==
    IF m.attrs = <<>>
    THEN fail(str)
    ELSE <<trim_end(SubSeq(str, 1, m.end)), m.attrs>>

RECURSIVE Loop(_, _)
Loop(str, m) == IF m.pc = "loop" THEN Loop(str, Iteration(str, m)) ELSE m

\* The whole call.
parse_attrs(str) ==
    LET m == Loop(str, Locals(str))
    IN  IF m.pc = "return" THEN fail(str)
        ELSE IF m.pc = "panic" THEN None
        ELSE Finish(str, m)


(***************************************************************************)
(* Inputs of parse_attrs: every string over Alphabet up to MaxLen, and     *)
(* strings assembled as prefix, opening, up to MaxTokens pieces separated  *)
(* by one space, and the closing brace.                                    *)
(***************************************************************************)
Pieces ==
    { <<"#", "a">>,                                  \* #a
      <<".", "b">>,                                  \* .b
      <<"a", "=", "b">>,                             \* a=b
      <<"b", "=", "\"", "a", " ", "b", "\"">>,       \* b="a b"
      <<"a", "=", "\"", "\\", "\"", "{", "\"">>,     \* a="\"{"
      <<"a">>,                                       \* a      (bare)
      <<"\"", "a", "\"">> }                          \* "a"    (no key)

Prefixes == { <<>>, <<"a">>, <<"a", " ">>, <<"b", "VT", " ">>, <<"{">> }

Opens == { <<"{">>, <<"{", " ">>, <<>> }

RECURSIVE Join(_)
Join(ts) ==
    IF ts = <<>> THEN <<>>
    ELSE IF Len(ts) = 1 THEN ts[1]
    ELSE ts[1] \o <<" ">> \o Join(Tail(ts))

Short == UNION { Str(n) : n \in 0..MaxLen }

Assembled ==
    { pre \o open \o Join(ts) \o <<"}">> :
        pre \in Prefixes, open \in Opens,
        ts \in UNION { [1..n -> Pieces] : n \in 0..MaxTokens } }

Inputs == Short \cup Assembled

(***************************************************************************)
(* SpecScan: one call of parse_attrs, one loop iteration per step.         *)
(***************************************************************************)
InitScan ==
    /\ s \in Inputs
    /\ sc = Locals(s)
    /\ ret = None
    /\ nodes = <<>>
    /\ visited = {}
    /\ root0 = <<>>
    /\ highlighted = {}

\* One loop iteration taken in state st; a `return fail` inside it returns.
Arm(st) ==
    /\ sc.pc = "loop"
    /\ sc.state = st
    /\ sc' = Iteration(s, sc)
    /\ ret' = IF sc'.pc = "return" THEN fail(s) ELSE ret
    /\ UNCHANGED <<s, nodes, visited, root0, highlighted>>

ArmStart == Arm("Start")

ArmBlank == Arm("Blank")

ArmQuoted == Arm("Quoted")

ArmEqual == Arm("Equal")

ArmUnquoted == Arm("Unquoted")

ArmKey == Arm("Key")

\* The statements after the loop, reached by break.
AfterLoop ==
    /\ sc.pc = "break"
    /\ sc' = [sc EXCEPT !.pc = "done"]
    /\ ret' = Finish(s, sc)
    /\ UNCHANGED <<s, nodes, visited, root0, highlighted>>

NextScan ==
    \/ ArmStart
    \/ ArmBlank
    \/ ArmQuoted
    \/ ArmEqual
    \/ ArmUnquoted
    \/ ArmKey
    \/ AfterLoop

SpecScan == InitScan /\ [][NextScan]_vars

Returned == ret # None

Failed == Returned /\ (sc.pc = "return" \/ sc.attrs = <<>>)

Succeeded == Returned /\ ~Failed

ScanAgrees == Returned => ret = parse_attrs(s)


(***************************************************************************)
(* Reading an annotation left to right, for the claims that speak of the   *)
(* tokens of the source: the text between the braces is split at ASCII     *)
(* whitespace outside quotes (a quote preceded by a backslash does not     *)
(* open or close), and a token is one of #value, .value, key=value,        *)
(* key="value" with key and value made of name characters and any          *)
(* character between the quotes, inner quotes being escaped.               *)
(***************************************************************************)
NameChars == {"a", "b"}

IsName(q) == q # <<>> /\ \A i \in 1..Len(q) : q[i] \in NameChars

RECURSIVE Lex(_, _, _, _, _)
Lex(body, i, cur, inq, out) ==
    IF i > Len(body)
    THEN IF cur = <<>> THEN out ELSE Append(out, cur)
    ELSE LET c == body[i]
         IN  IF ~inq /\ c \in AsciiWhitespace
             THEN Lex(body, i + 1, <<>>, inq,
                      IF cur = <<>> THEN out ELSE Append(out, cur))
             ELSE IF c = "\"" /\ ~(i > 1 /\ body[i - 1] = "\\")
             THEN Lex(body, i + 1, Append(cur, c), ~inq, out)
             ELSE Lex(body, i + 1, Append(cur, c), inq, out)

ForwardTokens(body) == Lex(body, 1, <<>>, FALSE, <<>>)

IsQuoted(r) ==
    /\ Len(r) >= 2
    /\ r[1] = "\""
    /\ r[Len(r)] = "\""
    /\ \A i \in 2..(Len(r) - 1) : r[i] = "\"" => (i > 2 /\ r[i - 1] = "\\")

EqualAt(t, e) ==
    /\ t[e] = "="
    /\ IsName(SubSeq(t, 1, e - 1))

IsQuotedToken(t) ==
    \E e \in 2..Len(t) : EqualAt(t, e) /\ IsQuoted(SubSeq(t, e + 1, Len(t)))

WellFormedToken(t) ==
    \/ Len(t) >= 2 /\ t[1] \in {"#", "."} /\ IsName(Tail(t))
    \/ \E e \in 2..Len(t) : EqualAt(t, e) /\ IsName(SubSeq(t, e + 1, Len(t)))
    \/ IsQuotedToken(t)

RECURSIVE Unescape(_)
Unescape(q) ==
    IF q = <<>> THEN <<>>
    ELSE IF Len(q) >= 2 /\ q[1] = "\\" /\ q[2] = "\""
    THEN <<"\"">> \o Unescape(SubSeq(q, 3, Len(q)))
    ELSE <<q[1]>> \o Unescape(Tail(q))

FirstEqual(t) == CHOOSE e \in 1..Len(t) : t[e] = "=" /\ \A d \in 1..(e - 1) : t[d] # "="

\* The text between the quotes of a key="value" token.
Inner(t) == SubSeq(t, FirstEqual(t) + 2, Len(t) - 1)

\* The pair a well-formed token denotes, read left to right.
TokenPair(t) ==
    IF t[1] = "#" THEN <<id, Tail(t)>>
    ELSE IF t[1] = "." THEN <<class, Tail(t)>>
    ELSE LET e == FirstEqual(t)
         IN  <<SubSeq(t, 1, e - 1),
               IF t[e + 1] = "\"" THEN Unescape(Inner(t)) ELSE SubSeq(t, e + 1, Len(t))>>

\* On success: the text between the recorded `{` and the final `}`, and its tokens.
Body == SubSeq(s, sc.end + 2, Len(s) - 1)

Tokens == ForwardTokens(Body)

AllWellFormed(toks) == \A i \in 1..Len(toks) : WellFormedToken(toks[i])


(***************************************************************************)
(* Claims about parse_attrs, checked under SpecScan.                       *)
(***************************************************************************)

\* C1: whenever parse_attrs fails, from `return fail` in any state or at the
\* final empty check, it returns exactly (s, empty list): the string is the
\* input and no pair collected earlier in the scan is returned.
AtomicFailure ==
    Returned => /\ Failed => ret = <<s, <<>>>>
                /\ ret[2] = <<>> => ret[1] = s

\* C1 witness: a scan that had already collected a pair, then failed.
AtomicFailureWitness ==
    /\ Failed
    /\ sc.pc = "return"
    /\ sc.attrs # <<>>
    /\ ret = <<s, <<>>>>

\* C2: an input whose last character is not `}` (the empty input included)
\* fails after reading at most one character, with the remainder equal to the
\* input; every success ends in `}`.
UnclosedFails ==
    Returned =>
        /\ (s = <<>> \/ s[Len(s)] # "}") =>
               /\ ret = <<s, <<>>>>
               /\ Len(s) - sc.it <= 1
               /\ sc.state = "Start"
        /\ Succeeded => (s # <<>> /\ s[Len(s)] = "}")

\* C2 witness: an input that opens an annotation and does not close it.
UnclosedFailsWitness ==
    /\ Returned
    /\ Len(s) >= 3
    /\ s[1] = "{"
    /\ s[Len(s)] # "}"
    /\ Len(s) - sc.it = 1

OnlyWhitespaceInBraces(str) ==
    /\ str # <<>>
    /\ str[Len(str)] = "}"
    /\ \E j \in 1..(Len(str) - 1) :
           /\ str[j] = "{"
           /\ \A i \in (j + 1)..(Len(str) - 1) : str[i] \in WhiteSpace

\* C3: no input returns a non-failure result with an empty attribute list;
\* `{}` and a brace pair holding only whitespace fail with the input unchanged,
\* and a scan that ended on `{` in state Key returns at least one pair.
NonEmptySuccess ==
    Returned =>
        /\ ret[2] = <<>> => ret[1] = s
        /\ OnlyWhitespaceInBraces(s) => ret = <<s, <<>>>>
        /\ (sc.pc = "done" /\ sc.state = "Key") => ret[2] # <<>>

\* C3 witness: the scan met `{` in state Blank with nothing collected, after
\* skipping whitespace, and the final check returned the failure.
NonEmptySuccessWitness ==
    /\ Returned
    /\ sc.pc = "done"
    /\ sc.state = "Blank"
    /\ sc.attrs = <<>>
    /\ Len(s) - sc.end > 2
    /\ ret = <<s, <<>>>>

\* C4: on success with N well-formed tokens between the braces, the returned
\* list has exactly N pairs and the i-th pair is the one the i-th token, counted
\* left to right, denotes.
OrderPreserved ==
    (Succeeded /\ AllWellFormed(Tokens)) =>
        /\ Len(ret[2]) = Len(Tokens)
        /\ \A i \in 1..Len(Tokens) : ret[2][i] = TokenPair(Tokens[i])

\* C4 witness: a success with two different tokens.
OrderPreservedWitness ==
    /\ Succeeded
    /\ AllWellFormed(Tokens)
    /\ Len(Tokens) >= 2
    /\ TokenPair(Tokens[1]) # TokenPair(Tokens[2])

\* C5: on success the remainder is the input before the recorded `{` with the
\* trailing whitespace removed: a prefix of the input that does not end in
\* whitespace, followed in the input by a run of whitespace and the matched
\* substring, which starts with `{` and ends with the final `}`.
RemainderRoundTrip ==
    Succeeded =>
        LET k == Len(ret[1])
            e == sc.end
        IN  /\ k <= e
            /\ e < Len(s)
            /\ ret[1] = SubSeq(s, 1, k)
            /\ (k > 0 => s[k] \notin WhiteSpace)
            /\ \A i \in (k + 1)..e : s[i] \in WhiteSpace
            /\ s[e + 1] = "{"
            /\ s[Len(s)] = "}"
            /\ s = ret[1] \o SubSeq(s, k + 1, e) \o SubSeq(s, e + 1, Len(s))

\* C5 witness: a success with text before the annotation and whitespace, not
\* all of it ASCII, between the two.
RemainderRoundTripWitness ==
    /\ Succeeded
    /\ ret[1] # <<>>
    /\ sc.end - Len(ret[1]) >= 2
    /\ \E i \in (Len(ret[1]) + 1)..sc.end : s[i] \notin AsciiWhitespace

\* C6: for a key="..." token, each \" between the quotes gives a literal " with
\* the backslash removed, and every other character between the quotes is kept
\* verbatim and in order.
EscapeCorrect ==
    (Succeeded /\ AllWellFormed(Tokens)) =>
        \A i \in 1..Len(Tokens) :
            IsQuotedToken(Tokens[i]) =>
                /\ i <= Len(ret[2])
                /\ ret[2][i][2] = Unescape(Inner(Tokens[i]))
                /\ ((\A j \in 1..Len(Inner(Tokens[i])) : Inner(Tokens[i])[j] # "\"")
                        => ret[2][i][2] = Inner(Tokens[i]))

\* C6 witness: a success whose quoted value holds an escaped quote and `{`.
EscapeCorrectWitness ==
    /\ Succeeded
    /\ AllWellFormed(Tokens)
    /\ \E i \in 1..Len(Tokens) :
           /\ IsQuotedToken(Tokens[i])
           /\ Inner(Tokens[i]) = <<"\\", "\"", "{">>
           /\ ret[2][i][2] = <<"\"", "{">>

BareChar(c) == c \notin (AsciiWhitespace \cup {"{", "#", ".", "=", "\""})

\* The text right of a bare run: nothing, or whitespace and well-formed tokens,
\* then the closing `}`.
CleanTail(t) ==
    /\ t # <<>>
    /\ t[Len(t)] = "}"
    /\ (Len(t) > 1 => t[1] \in AsciiWhitespace)
    /\ AllWellFormed(ForwardTokens(SubSeq(t, 1, Len(t) - 1)))

\* str[j] is whitespace or `{`, str[j+1..k] is an unquoted run with no #, . or =,
\* and what follows scans cleanly up to the closing `}`.
BareTokenAt(str, j, k) ==
    /\ str[j] \in AsciiWhitespace \cup {"{"}
    /\ \A i \in (j + 1)..k : BareChar(str[i])
    /\ CleanTail(SubSeq(str, k + 1, Len(str)))

UnopenedFails ==
    Returned =>
        /\ sc.index_char = None => ret = <<s, <<>>>>
        /\ (\A i \in 1..Len(s) : s[i] # "{") => ret = <<s, <<>>>>

\* C10 witness: the input ran out in state Key with a pair already collected.
UnopenedFailsWitness ==
    /\ Returned
    /\ sc.index_char = None
    /\ sc.state = "Key"
    /\ sc.attrs # <<>>
    /\ sc.it = 0


\* str[j] and str[k] are the quotes of a quoted string whose inner quotes are
\* escaped, the opening quote has nothing, or a character other than = and \,
\* on its left, and what follows the closing quote scans cleanly up to `}`.
UnboundQuotedAt(str, j, k) ==
    /\ str[j] = "\""
    /\ str[k] = "\""
    /\ IsQuoted(SubSeq(str, j, k))
    /\ (j = 1 \/ str[j - 1] \notin {"=", "\\"})
    /\ CleanTail(SubSeq(str, k + 1, Len(str)))

\* C11: a quoted token must be preceded by `=`: when the quote that opens a
\* quoted value has nothing or a character other than = and \ on its left, the
\* whole annotation fails; the scan leaves state Equal for state Key only on
\* `=`, so no pair takes its value from a quoted string without a key.
QuotedNeedsKey ==
    /\ Returned =>
           \A j \in 1..Len(s) : \A k \in (j + 1)..(Len(s) - 1) :
               UnboundQuotedAt(s, j, k) => ret = <<s, <<>>>>
    /\ (sc.state = "Equal" /\ sc.pc = "return") => sc.index_char \notin
           { <<i, c>> : i \in 0..Len(s), c \in {"=", "\\"} }

\* C11 witness: the scan failed in state Equal on whitespace left of the
\* opening quote, with a pair already collected.
QuotedNeedsKeyWitness ==
    /\ Returned
    /\ sc.pc = "return"
    /\ sc.state = "Equal"
    /\ sc.index_char # None
    /\ sc.index_char[2] = " "
    /\ sc.attrs # <<>>
    /\ \E j \in 1..Len(s) : \E k \in (j + 1)..(Len(s) - 1) :
           UnboundQuotedAt(s, j, k) /\ j = sc.index_char[1] + 2

(***************************************************************************)
(* The run of one call under the scheduling of a sequential program: the   *)
(* call keeps taking steps until it has returned.                          *)
(***************************************************************************)
SpecScanFair == SpecScan /\ WF_vars(NextScan)

\* Iterations of the loop begun so far, read off the iterator: one per
\* character yielded, and one more for the next() that returned None.
Iterations ==
    (Len(s) - sc.it) + (IF sc.pc = "return" /\ sc.index_char = None THEN 1 ELSE 0)

\* An iteration that reads the character just left of the previous one.
ReadsNextLeft ==
    /\ sc.it > 0
    /\ sc'.it = sc.it - 1
    /\ sc'.index_char = <<sc.it - 1, s[sc.it]>>
    /\ sc.index_char # None => sc'.index_char[1] = sc.index_char[1] - 1
    /\ sc'.pc \in {"loop", "break", "return"}

\* An iteration that finds the input exhausted: it ends the scan by Failure.
ReadsEndOfInput ==
    /\ sc.it = 0
    /\ sc'.it = 0
    /\ sc'.index_char = None
    /\ sc'.pc = "return"
    /\ ret' = <<s, <<>>>>

SinglePassStep ==
    sc.pc = "loop" =>
        /\ ReadsNextLeft \/ ReadsEndOfInput
        /\ Iterations' = Iterations + 1
        /\ sc'.pc # "loop" => ret' # None \/ sc'.pc = "break"

\* C12: parse_attrs terminates on every input; every loop iteration reads
\* exactly the one character just left of the one read before (never the
\* same one twice, never one to the right) or finds the input exhausted and
\* fails; so the loop runs at most Len(s) + 1 iterations.
SinglePassTerminates ==
    /\ [][SinglePassStep]_vars
    /\ [](Iterations <= Len(s) + 1 /\ sc.it \in 0..Len(s))
    /\ <>Returned

SinglePassTerminatesWitness ==
    /\ Returned
    /\ Len(s) >= 3
    /\ Iterations = Len(s) + 1
    /\ sc.state = "Key"


\* Strings put in front of a matched suffix: the prefixes of the assembled
\* inputs, every single character, and some that end in an annotation.
OtherPrefixes ==
    Prefixes \cup { <<c>> : c \in Alphabet }
             \cup { <<" ", "VT">>, <<"{", "}">>, <<"{", "#", "a", "}", " ">>,
                    <<"a", "=", "\"">>, <<"#", "a", " ">> }

\* The suffix of s that starts at the boundary `{` of a successful scan.
MatchedSuffix == SubSeq(s, sc.end + 1, Len(s))

\* C13: when parse_attrs succeeds on s with its boundary `{` at position
\* end, it has read no character left of end, and on p + s[end..], for any
\* string p, it succeeds with the same pairs and with p, trailing whitespace
\* trimmed, as the remainder.
PrefixIndependent ==
    Succeeded =>
        /\ sc.it = sc.end
        /\ sc.index_char = <<sc.end, "{">>
        /\ \A p \in OtherPrefixes :
               parse_attrs(p \o MatchedSuffix) = <<trim_end(p), ret[2]>>

PrefixIndependentWitness ==
    /\ Succeeded
    /\ sc.end >= 2
    /\ s[sc.end] \in WhiteSpace
    /\ Len(ret[2]) >= 2

(***************************************************************************)
(* The transition table of the specification, as a machine of its own, for *)
(* the claim that compares the code with it.  Ws is the set of characters  *)
(* the rows call whitespace and Wt the set trimmed from the remainder.  A  *)
(* row that emits a pair clears the buffers it names.  c is the next       *)
(* character to the left, at position i, or EndOfInput.                    *)
(***************************************************************************)
TableStart ==
    [state |-> "Start", key |-> <<>>, value |-> <<>>, attrs |-> <<>>,
     boundary |-> -1, outcome |-> "scanning"]

TableFailure(t) == [t EXCEPT !.outcome = "Failure"]

TableEmit(t, k, v) == [t EXCEPT !.attrs = <<<<k, v>>>> \o t.attrs]

EndOfInput == "end-of-input"

TableRow(Ws, t, i, c) ==
    CASE c = EndOfInput -> TableFailure(t)
      [] c # EndOfInput /\ t.state = "Start" ->
             IF c = "}" THEN [t EXCEPT !.state = "Blank"] ELSE TableFailure(t)
      [] c # EndOfInput /\ t.state = "Blank" ->
             CASE c = "{" ->
                      [t EXCEPT !.boundary = i,
                                !.outcome = IF t.attrs # <<>> THEN "Success"
                                            ELSE "Failure"]
               [] c = "\"" -> [t EXCEPT !.value = <<>>, !.state = "Quoted"]
               [] c \in Ws -> t
               [] OTHER -> [t EXCEPT !.value = <<c>>, !.state = "Unquoted"]
      [] c # EndOfInput /\ t.state = "Quoted" ->
             IF c = "\"" THEN [t EXCEPT !.state = "Equal"]
             ELSE [t EXCEPT !.value = <<c>> \o t.value]
      [] c # EndOfInput /\ t.state = "Equal" ->
             CASE c = "\\" -> [t EXCEPT !.value = <<"\"">> \o t.value,
                                        !.state = "Quoted"]
               [] c = "=" -> [t EXCEPT !.state = "Key"]
               [] OTHER -> TableFailure(t)
      [] c # EndOfInput /\ t.state = "Unquoted" ->
             CASE c = "#" -> [TableEmit(t, id, t.value) EXCEPT
                                  !.value = <<>>, !.state = "Blank"]
               [] c = "." -> [TableEmit(t, class, t.value) EXCEPT
                                  !.value = <<>>, !.state = "Blank"]
               [] c = "=" -> [t EXCEPT !.state = "Key"]
               [] c = "{" -> TableFailure(t)
               [] c \in Ws -> TableFailure(t)
               [] OTHER -> [t EXCEPT !.value = <<c>> \o t.value]
      [] c # EndOfInput /\ t.state = "Key" ->
             CASE c = "{" -> [TableEmit(t, t.key, t.value) EXCEPT
                                  !.boundary = i, !.outcome = "Success"]
               [] c \in Ws -> [TableEmit(t, t.key, t.value) EXCEPT
                                  !.key = <<>>, !.value = <<>>, !.state = "Blank"]
               [] OTHER -> [t EXCEPT !.key = <<c>> \o t.key]

\* The table after its first k rows were applied to str, from the right.
RECURSIVE TableAfter(_, _, _)
TableAfter(Ws, str, k) ==
    IF k = 0 THEN TableStart
    ELSE LET t == TableAfter(Ws, str, k - 1)
         IN  IF t.outcome # "scanning" THEN t
             ELSE IF k > Len(str) THEN TableRow(Ws, t, -1, EndOfInput)
             ELSE TableRow(Ws, t, Len(str) - k, str[Len(str) - k + 1])

RECURSIVE TrimEndOf(_, _)
TrimEndOf(Wt, q) ==
    IF q # <<>> /\ q[Len(q)] \in Wt
    THEN TrimEndOf(Wt, SubSeq(q, 1, Len(q) - 1))
    ELSE q

\* What the table returns: Failure is the untouched string and no pairs.
TableResult(Ws, Wt, str) ==
    LET t == TableAfter(Ws, str, Len(str) + 1)
    IN  IF t.outcome = "Success"
        THEN <<TrimEndOf(Wt, SubSeq(str, 1, t.boundary)), t.attrs>>
        ELSE <<str, <<>>>>

\* The code, after the iterations it has run, stands where the table stands:
\* same state, same pairs, same boundary and outcome, and the same buffers
\* wherever a later row reads them.
AgreesWithTable(Ws, Wt) ==
    LET t == TableAfter(Ws, s, Iterations)
    IN  /\ sc.attrs = t.attrs
        /\ sc.pc = "loop" <=> t.outcome = "scanning"
        /\ sc.pc = "loop" => sc.state = t.state
        /\ sc.pc = "return" => t.outcome = "Failure"
        /\ sc.pc \in {"break", "done"} =>
               /\ sc.end = t.boundary
               /\ t.outcome = (IF sc.attrs # <<>> THEN "Success" ELSE "Failure")
        /\ (sc.pc = "loop" /\ sc.state \in {"Quoted", "Equal", "Unquoted", "Key"}) =>
               sc.value = t.value
        /\ (sc.pc = "loop" /\ sc.state = "Key") => sc.key = t.key
        /\ Returned => ret = TableResult(Ws, Wt, s)

\* C14 as stated, with one meaning of whitespace throughout, that of the
\* trimming of the remainder: the code returns what the table returns on
\* every input.
TableEquivalentAnyWhitespace == AgreesWithTable(WhiteSpace, WhiteSpace)

\* C14: with the whitespace of the table's rows read as ASCII whitespace
\* (space, tab, line feed, form feed, carriage return; any other whitespace
\* character is an "any other char") and the whitespace trimmed from the
\* remainder as all whitespace, the code follows the table row by row and
\* returns the same outcome, remainder and pairs on every input, although
\* it leaves its buffers uncleared when it emits a pair; no pair holds
\* characters of a token emitted before.
TableEquivalent == AgreesWithTable(AsciiWhitespace, WhiteSpace)

TableEquivalentWitness ==
    /\ Succeeded
    /\ Len(ret[2]) >= 2
    /\ sc.state = "Blank"
    /\ sc.key # <<>>
    /\ sc.value # <<>>
    /\ TableAfter(AsciiWhitespace, s, Iterations).key = <<>>
    /\ TableAfter(AsciiWhitespace, s, Iterations).value = <<>>

NoneIn(W, q) == \A i \in 1..Len(q) : q[i] \notin W

\* What an iteration does with a character of W, state by state.
SeparatorStep(W) ==
    (sc.pc = "loop" /\ sc.it > 0 /\ s[sc.it] \in W) =>
        CASE sc.state = "Blank" ->
                 /\ sc'.pc = "loop" /\ sc'.state = "Blank"
                 /\ sc'.attrs = sc.attrs
          [] sc.state = "Key" ->
                 /\ sc'.pc = "loop" /\ sc'.state = "Blank"
                 /\ sc'.attrs = <<<<sc.key, sc.value>>>> \o sc.attrs
          [] sc.state = "Unquoted" ->
                 /\ sc'.pc = "return"
                 /\ ret' = <<s, <<>>>>
          [] sc.state = "Quoted" ->
                 /\ sc'.pc = "loop" /\ sc'.state = "Quoted"
                 /\ sc'.value = <<s[sc.it]>> \o sc.value
          [] OTHER -> sc'.pc = "return"

\* No key, and no value that was not between quotes, holds a character of
\* W.  A value is between quotes when it is bound to a key and the
\* character right of the `=` is a quote; the keys "id" and "class" of the
\* model come from `#` and `.` only, the alphabet having no letter of them.
SeparatorFree(W) ==
    /\ (sc.pc = "loop" /\ sc.state = "Unquoted") => NoneIn(W, sc.value)
    /\ (sc.pc = "loop" /\ sc.state = "Key") =>
           /\ NoneIn(W, sc.key)
           /\ ~NoneIn(W, sc.value) => s[sc.it + Len(sc.key) + 2] = "\""
    /\ \A n \in 1..Len(sc.attrs) :
           /\ NoneIn(W, sc.attrs[n][1])
           /\ sc.attrs[n][1] \in {id, class} => NoneIn(W, sc.attrs[n][2])
    /\ Succeeded => ret[2] = sc.attrs

\* C15 as stated, whitespace being every whitespace character, as in the
\* trimming of the remainder: Blank skips it, Key ends the key on it,
\* Unquoted fails on it, and no key or unquoted value of a Success holds one.
WhitespaceSeparates ==
    [][SeparatorStep(WhiteSpace)]_vars /\ []SeparatorFree(WhiteSpace)

\* C15: ASCII whitespace (space, tab, line feed, form feed, carriage return)
\* is only a separator outside quotes: Blank skips it, Key ends the key on
\* it, Unquoted fails on it, and between quotes it is kept; in every Success
\* no key and no value of a #value, .value or unquoted key=value token holds
\* an ASCII whitespace character.
AsciiWhitespaceSeparates ==
    [][SeparatorStep(AsciiWhitespace)]_vars /\ []SeparatorFree(AsciiWhitespace)

AsciiWhitespaceSeparatesWitness ==
    /\ Succeeded
    /\ Len(ret[2]) >= 2
    /\ \E n \in 1..Len(ret[2]) : ret[2][n][1] = id
    /\ \E n \in 1..Len(ret[2]) : ~NoneIn(AsciiWhitespace, ret[2][n][2])
    /\ ~NoneIn(AsciiWhitespace, SubSeq(s, sc.end + 2, sc.end + 2))

\* An iteration that goes on to the next one has passed the assertion.
PassesAssert ==
    (sc.pc = "loop" /\ sc'.pc = "loop") =>
        /\ sc'.index_char # None
        /\ sc'.index_char = <<sc.it - 1, s[sc.it]>>

\* An iteration that finds the input exhausted returns Failure in its arm.
EndOfInputReturns ==
    (sc.pc = "loop" /\ sc.it = 0) =>
        /\ sc'.index_char = None
        /\ sc'.pc = "return"
        /\ ret' = <<s, <<>>>>

\* An iteration that leaves the loop by break has read the boundary `{`.
BreakHasRead ==
    (sc.pc = "loop" /\ sc'.pc = "break") =>
        /\ sc'.index_char = <<sc'.end, "{">>
        /\ sc'.state \in {"Blank", "Key"}

\* C18: the assertion at the end of the loop body never fails: whenever an
\* iteration reaches it, that iteration has read a character; at end of
\* input every state returns Failure before it, and both Success exits
\* break out of the loop before it.
AssertionHolds ==
    /\ [](sc.pc # "panic")
    /\ [][PassesAssert /\ EndOfInputReturns /\ BreakHasRead]_vars

AssertionHoldsWitness ==
    /\ sc.pc = "return"
    /\ sc.index_char = None
    /\ sc.state = "Quoted"
    /\ Len(s) >= 3
    /\ Iterations = Len(s) + 1

(***************************************************************************)
(* AttrsRule::run.  A block node is a record                               *)
(*   kind      "ATXHeading", "SetextHeader", "CodeFence", "CodeBlock" or   *)
(*             "Paragraph"                                                 *)
(*   children  the inline children, each [kind, content] with kind "Text"  *)
(*             or "Em" (any inline node that is not Text)                  *)
(*   info      CodeFence::info                                             *)
(*   content   the code of a CodeFence or CodeBlock                        *)
(*   raw       CodeFence::raw, CodeBlock::raw                              *)
(*   attrs     Node::attrs                                                 *)
(* walk_mut calls the closure once on every node; its order is not part of *)
(* these sources, so the nodes are visited in any order.  A node is named  *)
(* by its path: <<n>> for block n, <<n, j>> for its j-th child.            *)
(***************************************************************************)
Headings == {"ATXHeading", "SetextHeader"}

extendNewKeys(attrs, new) ==
    attrs \o SelectSeq(new, LAMBDA p : \A i \in 1..Len(attrs) : attrs[i][1] # p[1])

extend(attrs, new) == attrs \o new

SetFirstText(node, content) ==
    [node EXCEPT !.children[1].content = content]

\* text.content = content.to_string(), text being the last child
SetLastText(node, content) ==
    [node EXCEPT !.children[Len(node.children)].content = content]

SetInfoWrongField(node, info) == [node EXCEPT !.content = info]

SetInfoForgotten(node, info) == node

\* code_fence.info = info.to_string()
SetInfo(node, info) == [node EXCEPT !.info = info]

LastText(node) == node.children[Len(node.children)].content

\* The closure given to walk_mut, as the node it leaves.
closure(node) ==
    IF node.kind \in Headings
    THEN IF node.children = <<>> \/ node.children[Len(node.children)].kind # "Text"
         THEN node
         ELSE LET r == parse_attrs(LastText(node))
              IN  IF r[2] = <<>>
                  THEN node
                  ELSE [SetLastText(node, r[1]) EXCEPT !.attrs = extend(node.attrs, r[2])]
    ELSE IF node.kind = "CodeFence"
    THEN LET r == parse_attrs(node.info)
         IN  IF r[2] = <<>>
             THEN node
             ELSE [SetInfo(node, r[1]) EXCEPT !.attrs = extend(node.attrs, r[2])]
    ELSE node

(***************************************************************************)
(* The trees the rule is run on.                                           *)
(***************************************************************************)
TextPlain == <<"a">>                                          \* a

TextOk == <<"a", " ", "{", "#", "a", " ", ".", "b", "}">>     \* a {#a .b}

TextOkBare == <<"{", ".", "b", "}">>                          \* {.b}

TextBad == <<"{", "a", " ", "#", "a", "}">>                   \* {a #a}

Texts == {TextPlain, TextOk, TextOkBare, TextBad}

Code == <<"a", " ", "{", "#", "a", "}">>                      \* a {#a}

TwoLines == <<"a", "\n", "b">>                                \* a, b on two lines

InitAttrs == { <<>>, << <<id, <<"b">>>>, <<class, <<"a">>>> >> }

Text(content) == [kind |-> "Text", content |-> content]

Em(content) == [kind |-> "Em", content |-> content]

ChildLists ==
    { <<>>, <<Text(TextOk)>>, <<Text(TextBad)>>,
      <<Em(TextOk), Text(TextOkBare)>>, <<Text(TextOk), Em(TextOkBare)>>,
      <<Text(TextOk), Text(TextBad)>> }

NodeShapes ==
    [kind : {"ATXHeading"}, children : ChildLists, info : {<<>>},
     content : {<<>>}, raw : {FALSE}, attrs : {<<>>}]
    \cup [kind : Headings, children : {<<Text(TextOk)>>}, info : {<<>>},
          content : {<<>>}, raw : {FALSE}, attrs : InitAttrs \ {<<>>}]
    \cup [kind : {"CodeFence"}, children : {<<>>}, info : Texts \ {TextOkBare},
          content : {Code}, raw : {FALSE}, attrs : {<<>>}]
    \cup [kind : {"CodeFence"}, children : {<<>>}, info : {TextOk},
          content : {Code}, raw : {FALSE}, attrs : InitAttrs \ {<<>>}]
    \cup [kind : {"CodeBlock"}, children : {<<>>}, info : {<<>>},
          content : {Code, <<>>}, raw : {FALSE}, attrs : {<<>>}]
    \cup [kind : {"CodeFence"}, children : {<<>>}, info : {TextOkBare},
          content : {TwoLines}, raw : {FALSE}, attrs : {<<>>}]
    \cup [kind : {"Paragraph"}, children : {<<Text(TextOk)>>}, info : {<<>>},
          content : {<<>>}, raw : {FALSE}, attrs : {<<>>}]

\* Every node of the tree, by path.
Paths ==
    { <<n>> : n \in 1..Len(nodes) }
    \cup UNION { { <<n, j>> : j \in 1..Len(nodes[n].children) } : n \in 1..Len(nodes) }

Init ==
    /\ nodes \in [1..NumNodes -> NodeShapes]
    /\ visited = {}
    /\ root0 = nodes
    /\ highlighted = {}
    /\ s = <<>>
    /\ sc = Locals(<<>>)
    /\ ret = None

\* The closure called on block node n.
Visit(n) ==
    /\ <<n>> \notin visited
    /\ nodes' = [nodes EXCEPT ![n] = closure(nodes[n])]
    /\ visited' = visited \cup {<<n>>}
    /\ UNCHANGED <<s, sc, ret, root0, highlighted>>

\* The closure called on the j-th inline child of block node n.
VisitInline(n, j) ==
    /\ <<n, j>> \notin visited
    /\ nodes' = [nodes EXCEPT ![n].children[j] = closure(nodes[n].children[j])]
    /\ visited' = visited \cup {<<n, j>>}
    /\ UNCHANGED <<s, sc, ret, root0, highlighted>>

Next ==
    \/ \E n \in 1..Len(nodes) : Visit(n)
    \/ \E n \in 1..Len(nodes) : \E j \in 1..Len(nodes[n].children) : VisitInline(n, j)

Spec == Init /\ [][Next]_vars


WalkDone == visited = Paths

(***************************************************************************)
(* Claims about AttrsRule, checked under Spec.                             *)
(***************************************************************************)

\* The string AttrsRule hands to the scanner for a node, None if it hands none.
Scanned(node) ==
    IF node.kind \in Headings
    THEN IF node.children # <<>> /\ node.children[Len(node.children)].kind = "Text"
         THEN <<LastText(node)>>
         ELSE None
    ELSE IF node.kind = "CodeFence" THEN <<node.info>> ELSE None

\* The node's text field as it is now (the same field Scanned reads).
TextField(node) == Scanned(node)

IsPrefix(a, b) == Len(a) <= Len(b) /\ SubSeq(b, 1, Len(a)) = a

\* C7: when AttrsRule applies a success to a node, the node's attributes
\* afterwards are its previous attributes followed by the returned pairs in
\* their order; in no step is an attribute removed, overwritten or reordered,
\* and no pair is dropped for its key being present already.
MergeAppends ==
    [][\A n \in 1..Len(nodes) :
          /\ IsPrefix(nodes[n].attrs, nodes'[n].attrs)
          /\ (<<n>> \in visited' \ visited /\ Scanned(nodes[n]) # None) =>
                 LET r == parse_attrs(Scanned(nodes[n])[1])
                 IN  r[2] # <<>> =>
                         /\ Len(nodes'[n].attrs) = Len(nodes[n].attrs) + Len(r[2])
                         /\ \A i \in 1..Len(r[2]) :
                                nodes'[n].attrs[Len(nodes[n].attrs) + i] = r[2][i]
      ]_vars

\* C7 witness: a visited node that had an id and a class and got a second id
\* and a second class appended.
MergeAppendsWitness ==
    \E n \in 1..Len(nodes) :
        /\ <<n>> \in visited
        /\ Len(nodes[n].attrs) = 4
        /\ nodes[n].attrs[1][1] = id
        /\ nodes[n].attrs[3][1] = id
        /\ nodes[n].attrs[2][1] = class
        /\ nodes[n].attrs[4][1] = class
        /\ nodes[n].attrs[1] # nodes[n].attrs[3]

\* C8: for every heading or code fence the rule visits, either the scan
\* succeeds and both the text field becomes the remainder and the attributes
\* are appended, or the scan fails and the node is exactly as before; the text
\* field changes if and only if the attributes change.
AllOrNothing ==
    [][\A n \in 1..Len(nodes) :
          /\ (TextField(nodes'[n]) # TextField(nodes[n]))
                 <=> (nodes'[n].attrs # nodes[n].attrs)
          /\ (<<n>> \in visited' \ visited /\ Scanned(nodes[n]) # None) =>
                 LET r == parse_attrs(Scanned(nodes[n])[1])
                 IN  IF r[2] # <<>>
                     THEN /\ TextField(nodes'[n]) = <<r[1]>>
                          /\ nodes'[n].attrs # nodes[n].attrs
                     ELSE nodes'[n] = nodes[n]
      ]_vars

\* C8 witness: both cases after the walk: a heading whose annotation was
\* stripped and applied, and a code fence whose malformed annotation was left
\* in place with no attribute added.
AllOrNothingWitness ==
    /\ WalkDone
    /\ \E n \in 1..Len(nodes) :
           /\ nodes[n].kind \in Headings
           /\ TextField(nodes[n]) = <<TextPlain>>
           /\ Len(nodes[n].attrs) = 2
           /\ nodes[n].attrs[1] = <<id, <<"a">>>>
    /\ \E n \in 1..Len(nodes) :
           /\ nodes[n].kind = "CodeFence"
           /\ nodes[n].info = TextBad
           /\ nodes[n].attrs = <<>>

\* C16: on a heading AttrsRule gives the scanner the content of the last
\* child, and only when that child is a Text node; a heading with no
\* children, or whose last child is not a Text node, keeps its children and
\* attributes; and no child other than the last is ever modified.
HeadingLastChildOnly ==
    [][\A n \in 1..Len(nodes) :
          nodes[n].kind \in Headings =>
              LET old == nodes[n].children
                  new == nodes'[n].children
                  last == Len(old)
              IN  /\ Len(new) = last
                  /\ \A j \in 1..(last - 1) : new[j] = old[j]
                  /\ (last = 0 \/ old[last].kind # "Text") => nodes'[n] = nodes[n]
                  /\ last > 0 => new[last].kind = old[last].kind
                  /\ (<<n>> \in visited' \ visited /\ last > 0
                        /\ old[last].kind = "Text") =>
                         LET r == parse_attrs(old[last].content)
                         IN  IF r[2] # <<>>
                             THEN /\ new[last].content = r[1]
                                  /\ nodes'[n].attrs = nodes[n].attrs \o r[2]
                             ELSE nodes'[n] = nodes[n]
      ]_vars

\* C16 witness: after the walk, a heading whose last child, a Text after an
\* Em, was scanned and stripped while the Em still holds its annotation, and
\* a heading ending in an Em that was left alone although the Text before it
\* holds an annotation.
HeadingLastChildOnlyWitness ==
    /\ WalkDone
    /\ \E n \in 1..Len(nodes) :
           /\ nodes[n].kind \in Headings
           /\ nodes[n].children = <<Em(TextOk), Text(<<>>)>>
           /\ nodes[n].attrs = <<<<class, <<"b">>>>>>
    /\ \E n \in 1..Len(nodes) :
           /\ nodes[n].kind \in Headings
           /\ nodes[n].children = <<Text(TextOk), Em(TextOkBare)>>
           /\ nodes[n].attrs = <<>>

\* A block node with the two things the rule may write on it blanked: its
\* attributes and its text field.  A node that has no text field (a heading
\* without a last Text child, or any other kind but a code fence) is kept
\* whole.
Blanked(node) ==
    IF node.kind \in Headings /\ Scanned(node) # None
    THEN [node EXCEPT !.attrs = <<>>, !.children[Len(node.children)].content = <<>>]
    ELSE IF node.kind = "CodeFence"
    THEN [node EXCEPT !.attrs = <<>>, !.info = <<>>]
    ELSE node

\* A step of the walk: the closure runs on exactly one node, named by path p.
LocalStep ==
    visited' # visited =>
        \E p \in visited' \ visited :
            /\ visited' = visited \cup {p}
            /\ \A m \in 1..Len(nodes) : m # p[1] => nodes'[m] = nodes[m]
            /\ Len(p) = 2 => nodes' = nodes
            /\ Blanked(nodes'[p[1]]) = Blanked(nodes[p[1]])
            /\ nodes'[p[1]].content = nodes[p[1]].content

\* C17: while AttrsRule processes a node it changes nothing but that node's
\* attributes and that node's text field; the code of a fence, every other
\* node, and every node that is neither heading nor fence stay as they are;
\* so whatever the order of the visits, each visited node is what the
\* closure makes of the node as received, and the final tree is the same.
NodeLocal ==
    /\ [][LocalStep]_vars
    /\ [](\A n \in 1..Len(nodes) :
             nodes[n] = IF <<n>> \in visited THEN closure(root0[n]) ELSE root0[n])
    /\ [](WalkDone => nodes = [n \in 1..Len(root0) |-> closure(root0[n])])

\* C17 witness: after the walk, a heading and a code fence that both were
\* changed, the fence still holding its code.
NodeLocalWitness ==
    /\ WalkDone
    /\ \E n \in 1..Len(nodes) : \E m \in 1..Len(nodes) :
           /\ nodes[n].kind \in Headings
           /\ nodes[n] # root0[n]
           /\ nodes[m].kind = "CodeFence"
           /\ nodes[m] # root0[m]
           /\ nodes[m].info # root0[m].info
           /\ nodes[m].content = Code

(***************************************************************************)
(* SyntectRule::run, the rule that runs after AttrsRule.  Its walk_mut     *)
(* calls the closure once on every node.  The highlighter is the syntect   *)
(* library: whether it accepts a line is its choice, so the closure is     *)
(* given the first line it rejects, 0 if it rejects none; what finalize    *)
(* returns stands for the HTML of the code in the syntax of the language.  *)
(***************************************************************************)
CodeKinds == {"CodeBlock", "CodeFence"}

\* LinesWithEndings::from(content), counted
NumLines(content) ==
    Cardinality({ i \in 1..Len(content) : content[i] = "\n" })
        + (IF content # <<>> /\ content[Len(content)] # "\n" THEN 1 ELSE 0)

\* (content, language) of lines 38-44, language being None for a CodeBlock
language(node) == IF node.kind = "CodeFence" THEN <<node.info>> ELSE None

finalize(lang, content) == <<"<span>", lang>> \o content \o <<"</span>">>

code == <<"c", "o", "d", "e">>

pushReplacing(attrs, pair) == <<pair>>

\* node.attrs.push(...)
push(attrs, pair) == Append(attrs, pair)

\* The closure given to walk_mut, as the node it leaves.
syntectClosure(node, rejected) ==
    IF node.kind \notin CodeKinds
    THEN node
    ELSE IF rejected # 0
    THEN node
    ELSE [node EXCEPT !.content = finalize(language(node), node.content),
                      !.raw = TRUE,
                      !.attrs = push(node.attrs, <<class, code>>)]

\* The closure called on block node n, once AttrsRule::run has returned.
SyntectVisit(n) ==
    /\ WalkDone
    /\ <<n>> \notin highlighted
    /\ \E rejected \in 0..NumLines(nodes[n].content) :
           nodes' = [nodes EXCEPT ![n] = syntectClosure(nodes[n], rejected)]
    /\ highlighted' = highlighted \cup {<<n>>}
    /\ UNCHANGED <<s, sc, ret, visited, root0>>

\* The closure called on the j-th inline child of block node n.
SyntectVisitInline(n, j) ==
    /\ WalkDone
    /\ <<n, j>> \notin highlighted
    /\ nodes' = [nodes EXCEPT ![n].children[j] = syntectClosure(nodes[n].children[j], 0)]
    /\ highlighted' = highlighted \cup {<<n, j>>}
    /\ UNCHANGED <<s, sc, ret, visited, root0>>

NextRules ==
    \/ \E n \in 1..Len(nodes) : Visit(n)
    \/ \E n \in 1..Len(nodes) : \E j \in 1..Len(nodes[n].children) : VisitInline(n, j)
    \/ \E n \in 1..Len(nodes) : SyntectVisit(n)
    \/ \E n \in 1..Len(nodes) : \E j \in 1..Len(nodes[n].children) :
           SyntectVisitInline(n, j)

\* AttrsRule::run followed by SyntectRule::run on the same tree.
SpecRules == Init /\ [][NextRules]_vars

\* A step of SyntectRule's walk on block node n.
HighlightStep(n) == <<n>> \in highlighted' \ highlighted

\* The node after a successful highlighting of old.
Highlighted(old, new) ==
    /\ new.content = finalize(language(old), old.content)
    /\ new.raw = TRUE
    /\ Len(new.attrs) = Len(old.attrs) + 1
    /\ SubSeq(new.attrs, 1, Len(old.attrs)) = old.attrs
    /\ new.attrs[Len(new.attrs)] = <<class, code>>
    /\ [new EXCEPT !.content = old.content, !.raw = old.raw, !.attrs = old.attrs] = old

\* C19: on a code block or code fence SyntectRule either replaces the
\* content, sets raw and appends exactly the one pair ("class", "code")
\* after the attributes the node has, or (a line was rejected) leaves the
\* node as it is; code without lines is always highlighted, other nodes are
\* never changed; no step removes or reorders an attribute, so the pairs
\* AttrsRule appended stay, ahead of the `code` class.
SyntectKeepsAttrs ==
    /\ [][\A n \in 1..Len(nodes) :
             /\ IsPrefix(nodes[n].attrs, nodes'[n].attrs)
             /\ HighlightStep(n) =>
                    IF nodes[n].kind \in CodeKinds
                    THEN /\ nodes'[n] = nodes[n] \/ Highlighted(nodes[n], nodes'[n])
                         /\ NumLines(nodes[n].content) = 0 => nodes'[n] # nodes[n]
                    ELSE nodes'[n] = nodes[n]
             /\ ~HighlightStep(n) /\ highlighted' # highlighted => nodes'[n] = nodes[n]
       ]_vars
    /\ [](WalkDone =>
              \A n \in 1..Len(nodes) :
                  LET a == closure(root0[n]).attrs
                  IN  /\ nodes[n].attrs \in {a, a \o <<<<class, code>>>>}
                      /\ nodes[n].attrs # a <=>
                             (<<n>> \in highlighted /\ nodes[n].raw))

\* C19 witness: both rules done; a fence with an attribute of its own got
\* two pairs from AttrsRule and then the `code` class behind them, and a
\* fence whose highlighting failed holds the pair AttrsRule gave it, its
\* code and raw flag untouched.
SyntectKeepsAttrsWitness ==
    /\ WalkDone
    /\ highlighted = Paths
    /\ \E n \in 1..Len(nodes) :
           /\ nodes[n].kind = "CodeFence"
           /\ nodes[n].raw
           /\ Len(root0[n].attrs) = 2
           /\ Len(nodes[n].attrs) = 5
           /\ nodes[n].attrs[3] = <<id, <<"a">>>>
           /\ nodes[n].attrs[5] = <<class, code>>
    /\ \E n \in 1..Len(nodes) :
           /\ nodes[n].kind = "CodeFence"
           /\ ~nodes[n].raw
           /\ nodes[n].content = TwoLines
           /\ nodes[n].attrs = <<<<class, <<"b">>>>>>

=============================================================================
